---- MODULE Spec2Model ----
(***************************************************************************)
(* Reminder / notification polling of the CRM front end.                   *)
(*                                                                         *)
(*   useUnifiedEventNotifications  (hook "U")  polls the unified event     *)
(*       store's cached events every 30 s                                  *)
(*   useReminderNotifications      (hook "R")  fetches /unified-events     *)
(*       every 15 s and keeps an in-memory set of notified ids             *)
(*   useReminderStore.checkReminders (store "S") and its module timers     *)
(*   useNotificationStore.addNotification (the notification center)        *)
(*                                                                         *)
(* Time is counted in minutes: the instants the model visits lie on a      *)
(* one-minute grid.  An interval timer (15 s / 30 s) may fire any number   *)
(* of times at one instant of the grid, and a suspended tab may let any    *)
(* number of minutes pass between two firings.                             *)
(***************************************************************************)
EXTENDS Integers, Sequences, FiniteSets, Bags, TLC

\* ------------------------------------------------------------------ bounds
MaxTime == 13
MaxInFlight == 2
MaxRequests == 3
MaxStale == 1

\* ------------------------------------------------------- program constants
ToleranceU == 5
ToleranceR == 10
DefaultNoticeR == 5

\* ------------------------------------------------------------ input sets
EventIds == {1, 2}
Users == {"A", "B"}
NoUser == "none"
EventTypes == {"reminder", "meeting"}
TzOffsets == {0, -180}
\* Start times as the repository stores them: minute 12 on the wall clock of
\* a browser at each of the offsets.
StartTimes == {12 - tz : tz \in TzOffsets}
Notices == {0, 2, 12}
\* Two start times no Date can be made of, coded below every real instant:
\* a string of the ISO shape that names no date ("2025-13-45T99:99:00.000Z")
\* and a string of any other shape ("soon").
InvalidDate == -1
Garbage == -2
BadDates == {InvalidDate, Garbage}
NoEvent == [absent |-> TRUE]

\* What the texts of a notification are made of besides the start time: the
\* event's title and customer name.
Titles == {"call", "visit"}

\* Each event under a title of its own.
TitleOf == [id \in EventIds |-> IF id = 1 THEN "call" ELSE "visit"]

EventRec ==
  [eventType : EventTypes, startTime : StartTimes, advanceNotice : Notices,
   isActive : BOOLEAN, notified : BOOLEAN, title : Titles]

MinutesPerDay == 24 * 60
Min(S) == CHOOSE x \in S : \A y \in S : x <= y

VARIABLES
  now,                \* new Date().getTime(), in minutes
  user,               \* useAuthStore: user
  isAuthenticated,    \* useAuthStore: isAuthenticated
  tokens,             \* localStorage holds session_token and access_token
  server,             \* the repository behind /unified-events
  tzOffset,           \* the browser's Date.getTimezoneOffset(), in minutes
  mounted,            \* the hooks the application renders
  osNotification,     \* the browser's Notification API: "absent", permission
                      \* "denied", "granted", or granted with a constructor
                      \* that "throws"
  formData,           \* Reminders page: the date and time last submitted
  serverData,         \* addEvent / updateEvent: the body of the request sent
  shown,              \* the last conversion to Israel time: by, of, result
  returned,           \* what the last call of a query or pure function
                      \* returned: by, its input, its result
  leads,              \* useLeadStore: leads
  nTimer,             \* useNotificationStore module: checkIfAuthenticated
                      \* "waiting", or the one-minute interval "armed"
  toastContainer,     \* ToastContainer: "unmounted" or "mounted"
  serviceWorker,      \* NotificationService.setupServiceWorker: where it is
  permissionRequests, \* the Notification.requestPermission() calls made
  events,             \* useUnifiedEventStore: events
  uFetch,             \* fetchEvents() call in flight
  uTimer,             \* hook U: interval armed
  uMarks,             \* useUnifiedEventStore.markAsNotified PATCHes in flight
  uDelete,            \* useUnifiedEventStore.deleteEvent DELETEs in flight
  isLoading,          \* useUnifiedEventStore: isLoading
  rTimer,             \* hook R: interval armed
  notifiedEventsRef,  \* hook R: notifiedEventsRef.current
  rTicks,             \* hook R: checkUnifiedEvents calls awaiting their fetch
  rMarks,             \* hook R: markEventAsNotified PATCHes in flight
  reminders,          \* useReminderStore: reminders
  sTimers,            \* useReminderStore module: the intervals armed
  sBoot,              \* useReminderStore module: checkIfAuthenticated pending
  notifications,      \* useNotificationStore: notifications (newest first)
  unreadCount,        \* useNotificationStore: unreadCount
  out,                \* what the last step emitted (toast, center entry, PATCH)
  caught,             \* the calls of the unified event store whose catch
                      \* ran in the last step: call, rethrown
  done                \* <<poller, what, id>>: the emissions and the failed
                      \* mark-notified calls since the session began

authVars == <<user, isAuthenticated, tokens>>
storeVars == <<uDelete, isLoading>>
uVars == <<events, uFetch, uTimer, uMarks, storeVars>>
rVars == <<rTimer, notifiedEventsRef, rTicks, rMarks>>
sVars == <<reminders, sTimers, sBoot>>
pageVars == <<formData, serverData, shown, returned>>
appVars == <<leads, nTimer, toastContainer, serviceWorker, permissionRequests>>
envVars == <<server, tzOffset, mounted, osNotification, pageVars, appVars>>
vars == <<now, authVars, envVars, uVars, rVars, sVars, notifications,
          unreadCount, out, caught, done>>

\* The application just loaded, with no lead in the lead store.
NoLead == [absent |-> TRUE]
LeadIds == {1, 2}
AppJustLoaded ==
  /\ leads = [id \in LeadIds |-> NoLead]
  /\ nTimer = "waiting"
  /\ toastContainer = "unmounted"
  /\ serviceWorker = "unloaded"
  /\ permissionRequests = <<>>

NoForm == [st |-> "empty"]
NoRequest == [st |-> "none"]
NothingShown == [st |-> "nothing"]
NothingReturned == [by |-> "nobody"]
Idle == [st |-> "idle"]
Sent == [st |-> "sent"]

\* ------------------------------------------------- notification center
\* addNotification: no user -> nothing; an unread entry with the same type,
\* title, message, user and metadata.reminderId -> nothing; else prepend.
IsDuplicate(notifs, u, n) ==
  \E i \in 1..Len(notifs) :
     /\ notifs[i].type = n.type
     /\ notifs[i].title = n.title
     /\ notifs[i].message = n.message
     /\ notifs[i].userId = u
     /\ notifs[i].reminderId = n.reminderId
     /\ ~notifs[i].read

\* unreadCount: state.unreadCount + 1, once for every entry a pass prepended
UnreadAfterAdding(notifs) == unreadCount + (Len(notifs) - Len(notifications))

\* newNotification: read: false, userId and the fields handed in.  Of
\* createdAt only the entries of type 'callback' are ever asked, so the
\* model keeps it for them alone.
NewNotification(u, n) ==
  IF n.type = "callback"
    THEN [type |-> n.type, title |-> n.title, message |-> n.message,
          reminderId |-> n.reminderId, eventId |-> n.eventId,
          leadId |-> n.leadId, callbackDate |-> n.callbackDate,
          callbackTime |-> n.callbackTime, createdAt |-> now,
          userId |-> u, read |-> FALSE]
    ELSE [type |-> n.type, title |-> n.title, message |-> n.message,
          reminderId |-> n.reminderId, eventId |-> n.eventId,
          userId |-> u, read |-> FALSE]

AddNotification(notifs, u, n) ==
  IF u = NoUser THEN notifs
  ELSE IF IsDuplicate(notifs, u, n) THEN notifs
  ELSE <<NewNotification(u, n)>> \o notifs

\* Lines 80-86 of addNotification, reached by an entry that was added: with
\* permission granted the entry is also handed to new Notification(...), and
\* what that constructor throws leaves addNotification uncaught.
OsStates == {"absent", "denied", "granted", "throws"}

AddNotificationThrows(notifs, u, n) ==
  /\ AddNotification(notifs, u, n) # notifs
  /\ osNotification = "throws"

\* One emission of a step: the channel ("toast", "center" for an entry added
\* to the notification center, "mark" for a mark-notified PATCH that left),
\* the event as the pass evaluated it and the time of the pass, with
\*   again      the same channel carried the same event earlier in the session
\*   afterFail  a mark-notified call for the event failed earlier in the session
Emission(hook, ch, id, ev, acc) ==
  [hook |-> hook, ch |-> ch, id |-> id, ev |-> ev, at |-> now,
   again |-> (<<hook, ch, id>> \in acc.seen),
   afterFail |-> (<<hook, "failed", id>> \in acc.seen)]

Keys(emitted) == {<<e.hook, e.ch, e.id>> : e \in emitted}

\* ---------------------------------------------------- unified event store
\* new Date(s).getTime() is NaN.
IsNaN(t) == t \in BadDates

\* parseSimpleISOString: a string of the ISO shape is read as UTC and moved
\* by the browser's timezone offset, which leaves an Invalid Date invalid;
\* any other string that no Date can be made of gives new Date(), the time
\* of the call.
parseSimpleISOString(t) ==
  IF t = InvalidDate THEN InvalidDate
  ELSE IF t = Garbage THEN now
  ELSE t + tzOffset

\* Date.prototype.toISOString throws a RangeError on an Invalid Date.
ToISOStringThrows(d) == d = InvalidDate

\* fetchEvents, the map over data.events: advanceNotice || 0,
\* isActive defaulting to true, notified || false.
FetchTransform(ev) ==
  [eventType |-> ev.eventType,
   startTime |-> parseSimpleISOString(ev.startTime),
   advanceNotice |-> ev.advanceNotice,
   isActive |-> ev.isActive,
   notified |-> ev.notified,
   title |-> ev.title]

\* The catch of a store call: fetchEvents and markAsNotified end there,
\* deleteEvent ends it with throw error.
Caught(call) == [call |-> call, rethrown |-> call = "deleteEvent"]

\* The markAsNotified calls of one checkReminders pass that found no tokens.
CaughtBy(failed) == IF failed = {} THEN {} ELSE {Caught("markAsNotified")}

\* fetchEvents up to its await: isLoading is set; without tokens it throws at
\* once into its catch and no request leaves.  A request that leaves while an
\* earlier one is outstanding is merged with it.
FetchEventsCall(tok) == IF tok THEN Sent ELSE uFetch

\* The server answers the request: a snapshot of the repository, or a
\* failure (non-OK status, network error).
UFetchServe ==
  /\ uFetch.st = "sent"
  /\ \E ok \in BOOLEAN :
       uFetch' = [st |-> "served", ok |-> ok, snap |-> server]
  /\ out' = {}
  /\ caught' = {}
  /\ UNCHANGED <<now, authVars, envVars, events, uTimer, uMarks, storeVars,
                 rVars, sVars, notifications, unreadCount, done>>

\* The map over data.events runs inside the try of fetchEvents: one
\* toISOString that throws ends the whole map in the catch.
TransformThrows(snap) ==
  \E id \in EventIds :
     /\ snap[id] # NoEvent
     /\ ToISOStringThrows(parseSimpleISOString(snap[id].startTime))

\* fetchEvents after its await: set({ events }) on success, the catch
\* (error, toast.error) otherwise.
UFetchDeliver ==
  /\ uFetch.st = "served"
  /\ events' = IF uFetch.ok /\ ~TransformThrows(uFetch.snap)
                 THEN [id \in EventIds |->
                         IF uFetch.snap[id] = NoEvent THEN NoEvent
                         ELSE FetchTransform(uFetch.snap[id])]
                 ELSE events
  /\ uFetch' = Idle
  /\ isLoading' = FALSE
  /\ out' = {}
  /\ caught' = IF uFetch.ok /\ ~TransformThrows(uFetch.snap)
                 THEN {} ELSE {Caught("fetchEvents")}
  /\ UNCHANGED <<now, authVars, envVars, uTimer, uMarks, uDelete, rVars,
                 sVars, notifications, unreadCount, done>>

\* The Reminders page mounts and calls fetchEvents(): isLoading is set;
\* without tokens the call ends in its catch at once, with them the GET
\* leaves.
FetchEvents ==
  /\ isAuthenticated
  /\ uFetch' = FetchEventsCall(tokens)
  /\ isLoading' = tokens
  /\ out' = {}
  /\ caught' = IF tokens THEN {} ELSE {Caught("fetchEvents")}
  /\ UNCHANGED <<now, authVars, envVars, events, uTimer, uMarks, uDelete,
                 rVars, sVars, notifications, unreadCount, done>>

\* deleteEvent, the list after the call: the event is filtered out once the
\* response is OK.
EventsAfterDelete_BeforeTheResponse(evs, id, ok) ==
  [evs EXCEPT ![id] = NoEvent]

EventsAfterDelete(evs, id, ok) ==
  IF ok THEN [evs EXCEPT ![id] = NoEvent] ELSE evs

\* handleDelete of the Reminders page calls deleteEvent(id) for an event of
\* the list: isLoading is set; without tokens the call ends in its catch at
\* once, with them the DELETE leaves.
DeleteEvent ==
  \E id \in EventIds :
     /\ isAuthenticated
     /\ events[id] # NoEvent
     /\ id \notin uDelete
     /\ uDelete' = IF tokens THEN uDelete \cup {id} ELSE uDelete
     /\ isLoading' = tokens
     /\ out' = {}
     /\ caught' = IF tokens THEN {} ELSE {Caught("deleteEvent")}
     /\ UNCHANGED <<now, authVars, envVars, events, uFetch, uTimer, uMarks,
                    rVars, sVars, notifications, unreadCount, done>>

\* deleteEvent after its await: an OK response removes the row from the
\* repository and the event from the list; anything else ends in the
\* catch.  Either way isLoading is cleared.
UDeleteDone ==
  \E id \in uDelete, ok \in BOOLEAN :
     /\ uDelete' = uDelete \ {id}
     /\ server' = IF ok THEN [server EXCEPT ![id] = NoEvent] ELSE server
     /\ events' = EventsAfterDelete(events, id, ok)
     /\ isLoading' = FALSE
     /\ out' = {}
     /\ caught' = IF ok THEN {} ELSE {Caught("deleteEvent")}
     /\ UNCHANGED <<now, authVars, tzOffset, mounted, osNotification,
                    pageVars, appVars, uFetch, uTimer, uMarks, rVars, sVars,
                    notifications, unreadCount, done>>

\* markAsNotified up to its await: without tokens it throws into its catch
\* (toast.error); otherwise the PATCH leaves.
MarkAsNotifiedCall(marks, id, tok) == IF tok THEN marks \cup {id} ELSE marks

\* markAsNotified after its await: an OK response sets notified on the server
\* and in the local copy; anything else ends in the catch.
UMarkDone ==
  \E id \in uMarks, ok \in BOOLEAN :
     /\ ok => server[id] # NoEvent
     /\ uMarks' = uMarks \ {id}
     /\ server' = IF ok THEN [server EXCEPT ![id].notified = TRUE] ELSE server
     /\ events' = IF ok /\ events[id] # NoEvent
                    THEN [events EXCEPT ![id].notified = TRUE]
                    ELSE events
     /\ done' = IF ok THEN done ELSE done \cup {<<"U", "failed", id>>}
     /\ out' = {}
     /\ caught' = IF ok THEN {} ELSE {Caught("markAsNotified")}
     /\ UNCHANGED <<now, authVars, tzOffset, mounted, osNotification, pageVars, appVars,
                    uFetch, uTimer, storeVars, rVars,
                    sVars, notifications, unreadCount>>

\* ------------------------------------------ hook U: checkReminders
\* The filter without its test of the notified flag.
IsCandidateU_IgnoringNotified(ev) ==
  ev # NoEvent /\ ev.eventType = "reminder" /\ ev.isActive

\* The filter of line 31-33.
IsCandidateU(ev) ==
  ev # NoEvent /\ ev.eventType = "reminder" /\ ev.isActive /\ ~ev.notified

\* Lines 37-49: a start time that is no date is skipped; otherwise inside
\* the notice window and at most 5 minutes after it opened.
IsDueU(ev, t) ==
  LET notificationTime == ev.startTime - ev.advanceNotice
  IN /\ ~IsNaN(ev.startTime)
     /\ t >= notificationTime
     /\ t < ev.startTime
     /\ t - notificationTime >= 0
     /\ t - notificationTime <= ToleranceU

\* The body of the forEach for one event: toast, addNotification,
\* markAsNotified.  What addNotification throws is caught at line 89, after
\* which the loop goes on to the next event.
DispatchU(id, ev, acc) ==
  LET n == [type |-> "reminder", title |-> ev.title,
            message |-> <<"U", ev.startTime>>, reminderId |-> "none",
            eventId |-> id]
      notifs == AddNotification(acc.notifs, acc.u, n)
      thrown == AddNotificationThrows(acc.notifs, acc.u, n)
      marks == IF thrown THEN acc.marks
               ELSE MarkAsNotifiedCall(acc.marks, id, acc.tok)
      emitted ==
        {Emission("U", "toast", id, ev, acc)}
        \cup (IF notifs # acc.notifs
                THEN {Emission("U", "center", id, ev, acc)} ELSE {})
        \cup (IF acc.tok /\ ~thrown
                THEN {Emission("U", "mark", id, ev, acc)} ELSE {})
  IN [acc EXCEPT !.notifs = notifs, !.marks = marks,
                 !.out = acc.out \cup emitted,
                 !.failed = acc.failed \cup
                            (IF acc.tok \/ thrown THEN {}
                             ELSE {<<"U", "failed", id>>})]

CheckOneU(id, acc) ==
  IF IsCandidateU(events[id]) /\ IsDueU(events[id], now)
    THEN DispatchU(id, events[id], acc)
    ELSE acc

RECURSIVE CheckRemindersFrom(_, _)
CheckRemindersFrom(ids, acc) ==
  IF ids = {} THEN acc
  ELSE CheckRemindersFrom(ids \ {Min(ids)}, CheckOneU(Min(ids), acc))

\* One pass of checkReminders over the store's events: u and tok are the
\* user and the tokens at the time of the pass, notifs the notification
\* center before it, seen the emissions of the session so far.
CheckRemindersU(notifs, u, tok, seen) ==
  CheckRemindersFrom(EventIds,
    [notifs |-> notifs, marks |-> uMarks, out |-> {}, failed |-> {},
     seen |-> seen, u |-> u, tok |-> tok])

\* setInterval(checkReminders, 30000) fires.
UTimerFire ==
  /\ uTimer
  /\ LET r == CheckRemindersU(notifications, user, tokens, done)
     IN /\ notifications' = r.notifs /\ unreadCount' = UnreadAfterAdding(r.notifs)
        /\ uMarks' = r.marks
        /\ out' = r.out
        /\ caught' = CaughtBy(r.failed)
        /\ done' = done \cup Keys(r.out) \cup r.failed
  /\ UNCHANGED <<now, authVars, envVars, events, uFetch, uTimer, storeVars,
                 rVars, sVars>>

\* ------------------------------------- hook R: checkUnifiedEvents
\* Lines 45-59: without tokens the call returns; otherwise the GET leaves and
\* the call waits for it.
StartTickR(ticks, tok) == IF tok THEN ticks (+) SetToBag({Sent}) ELSE ticks

\* The skips of lines 73-80 without the test of the event type.
IsCandidateR_IgnoringType(id, ev, ref) ==
  id \notin ref /\ ev.isActive /\ ~ev.notified

\* The filter without its look at the session's set.
IsCandidateR_IgnoringSet(id, ev, ref) ==
  ev.eventType = "reminder" /\ ev.isActive /\ ~ev.notified

\* Lines 73-80: the session's set first, then type, isActive, notified.
IsCandidateR(id, ev, ref) ==
  id \notin ref /\ ev.eventType = "reminder" /\ ev.isActive /\ ~ev.notified

\* Line 95: (event.advanceNotice || 5).
AdvanceNoticeR(ev) ==
  IF ev.advanceNotice = 0 THEN DefaultNoticeR ELSE ev.advanceNotice

\* Lines 84-89: new Date(event.startTime) is a date.
IsValidDateR(ev) == ~IsNaN(ev.startTime)

\* Lines 84-108: a start time that is no date is skipped; otherwise inside
\* the notice window and at most 10 minutes after it opened.
IsDueR(ev, t) ==
  LET notificationTimeUTC == ev.startTime - AdvanceNoticeR(ev)
  IN /\ IsValidDateR(ev)
     /\ t >= notificationTimeUTC
     /\ t < ev.startTime
     /\ t - notificationTimeUTC >= 0
     /\ t - notificationTimeUTC <= ToleranceR

\* markEventAsNotified up to its await: without tokens it returns.
MarkEventAsNotifiedCall(marks, id, tok) ==
  IF tok THEN marks \cup {id} ELSE marks

\* Lines 110-160 for one event: toast, addNotification, the session's set,
\* markEventAsNotified.  What addNotification throws is caught at line 163.
DispatchR(id, ev, acc) ==
  LET n == [type |-> "reminder", title |-> ev.title,
            message |-> <<"R", ev.startTime>>, reminderId |-> "none",
            eventId |-> id]
      notifs == AddNotification(acc.notifs, acc.u, n)
      thrown == AddNotificationThrows(acc.notifs, acc.u, n)
      emitted ==
        {Emission("R", "toast", id, ev, acc)}
        \cup (IF notifs # acc.notifs
                THEN {Emission("R", "center", id, ev, acc)} ELSE {})
        \cup (IF acc.tok /\ ~thrown
                THEN {Emission("R", "mark", id, ev, acc)} ELSE {})
  IN [acc EXCEPT !.notifs = notifs,
                 !.ref = IF thrown THEN acc.ref ELSE acc.ref \cup {id},
                 !.marks = IF thrown THEN acc.marks
                           ELSE MarkEventAsNotifiedCall(acc.marks, id,
                                                        acc.tok),
                 !.out = acc.out \cup emitted,
                 !.failed = acc.failed \cup
                            (IF acc.tok \/ thrown THEN {}
                             ELSE {<<"R", "failed", id>>})]

CheckOneR(id, snap, acc) ==
  IF IsCandidateR(id, snap[id], acc.ref) /\ IsDueR(snap[id], now)
    THEN DispatchR(id, snap[id], acc)
    ELSE acc

RECURSIVE CheckUnifiedEventsFrom(_, _, _)
CheckUnifiedEventsFrom(ids, snap, acc) ==
  IF ids = {} THEN acc
  ELSE CheckUnifiedEventsFrom(ids \ {Min(ids)}, snap,
                              CheckOneR(Min(ids), snap, acc))

\* setInterval(checkUnifiedEvents, 15000) fires.
RTimerFire ==
  /\ rTimer
  /\ tokens => BagCardinality(rTicks) < MaxInFlight
  /\ rTicks' = StartTickR(rTicks, tokens)
  /\ out' = {}
  /\ caught' = {}
  /\ UNCHANGED <<now, authVars, envVars, uVars, rTimer,
                 notifiedEventsRef, rMarks, sVars, notifications, unreadCount, done>>

\* The server answers a GET of hook R.
RFetchServe ==
  \E t \in BagToSet(rTicks), ok \in BOOLEAN :
     /\ t.st = "sent"
     /\ rTicks' = (rTicks (-) SetToBag({t})) (+)
                    SetToBag({[st |-> "served", ok |-> ok, snap |-> server]})
     /\ out' = {}
     /\ caught' = {}
     /\ UNCHANGED <<now, authVars, envVars, uVars, rTimer,
                    notifiedEventsRef, rMarks, sVars, notifications, unreadCount, done>>

\* A failed fetch that also empties the session's set.
ReturnOnFailedFetchR_ForgettingSet(notifs, ref, marks) ==
  [notifs |-> notifs, ref |-> {}, marks |-> marks, out |-> {}, failed |-> {}]

\* Lines 61-64 and 169-171: a non-OK response, or a fetch that threw, ends
\* the call with nothing evaluated and nothing changed.
ReturnOnFailedFetchR(notifs, ref, marks) ==
  [notifs |-> notifs, ref |-> ref, marks |-> marks, out |-> {}, failed |-> {}]

\* checkUnifiedEvents after its await: a failed fetch ends the call, an OK
\* response is walked event by event.
RFetchDeliver ==
  \E t \in BagToSet(rTicks) :
     /\ t.st = "served"
     /\ rTicks' = rTicks (-) SetToBag({t})
     /\ LET r == IF t.ok
                   THEN CheckUnifiedEventsFrom(EventIds, t.snap,
                          [notifs |-> notifications, ref |-> notifiedEventsRef,
                           marks |-> rMarks, out |-> {}, failed |-> {},
                           seen |-> done, u |-> user, tok |-> tokens])
                   ELSE ReturnOnFailedFetchR(notifications, notifiedEventsRef,
                                             rMarks)
        IN /\ notifications' = r.notifs /\ unreadCount' = UnreadAfterAdding(r.notifs)
           /\ notifiedEventsRef' = r.ref
           /\ rMarks' = r.marks
           /\ out' = r.out
           /\ caught' = {}
           /\ done' = done \cup Keys(r.out) \cup r.failed
     /\ UNCHANGED <<now, authVars, envVars, uVars, rTimer, sVars>>

\* markEventAsNotified after its await: the response is not looked at.
RMarkDone ==
  \E id \in rMarks, ok \in BOOLEAN :
     /\ rMarks' = rMarks \ {id}
     /\ server' = IF ok THEN [server EXCEPT ![id].notified = TRUE] ELSE server
     /\ done' = IF ok THEN done ELSE done \cup {<<"R", "failed", id>>}
     /\ out' = {}
     /\ caught' = {}
     /\ UNCHANGED <<now, authVars, tzOffset, mounted, osNotification, pageVars, appVars,
                    uVars, rTimer,
                    notifiedEventsRef, rTicks, sVars, notifications, unreadCount>>

\* ------------------------------- reminder store: checkReminders
\* Lines 1724-1787 for one reminder of the list read at line 1722: an
\* inactive one is skipped, one past its time is deactivated, a notified one
\* is skipped, and one whose advance notice time has come gets a 'system'
\* entry in the notification center and notified = true, unless the center
\* already holds a 'system' entry for it.
CheckOneS(id, list, acc) ==
  LET reminder == list[id]
      advanceNoticeTime == reminder.startTime - reminder.advanceNotice
      n == [type |-> "system", title |-> "advance", message |-> <<"S", id>>,
            reminderId |-> id, eventId |-> "none"]
      existing == \E i \in 1..Len(acc.notifs) :
                     /\ acc.notifs[i].reminderId = id
                     /\ acc.notifs[i].type = "system"
      notifs == AddNotification(acc.notifs, acc.u, n)
  IN IF reminder = NoEvent \/ ~reminder.isActive THEN acc
     ELSE IF now > reminder.startTime
       THEN [acc EXCEPT !.rems[id].isActive = FALSE]
     ELSE IF reminder.notified THEN acc
     ELSE IF now >= advanceNoticeTime /\ ~existing
       THEN [acc EXCEPT
               !.notifs = notifs,
               !.rems[id].notified =
                  IF AddNotificationThrows(acc.notifs, acc.u, n)
                    THEN acc.rems[id].notified ELSE TRUE,
               !.out = acc.out \cup
                       (IF notifs # acc.notifs
                          THEN {Emission("S", "center", id, reminder, acc)}
                          ELSE {})]
     ELSE acc

RECURSIVE CheckRemindersSFrom(_, _, _)
CheckRemindersSFrom(ids, list, acc) ==
  IF ids = {} THEN acc
  ELSE CheckRemindersSFrom(ids \ {Min(ids)}, list,
                           CheckOneS(Min(ids), list, acc))

\* checkReminders: nothing without an authenticated user (line 1719).
CheckRemindersS ==
  LET acc == [notifs |-> notifications, rems |-> reminders, out |-> {},
              seen |-> done, u |-> user]
      r == IF isAuthenticated /\ user # NoUser
             THEN CheckRemindersSFrom(EventIds, reminders, acc)
             ELSE acc
  IN /\ notifications' = r.notifs /\ unreadCount' = UnreadAfterAdding(r.notifs)
     /\ reminders' = r.rems
     /\ out' = r.out
     /\ caught' = {}
     /\ done' = done \cup Keys(r.out)

\* The interval of line 1803, armed when the module loads: it looks at user.
SModuleTimerFire ==
  /\ "module" \in sTimers
  /\ IF user # NoUser
       THEN CheckRemindersS
       ELSE out' = {} /\ caught' = {} /\ UNCHANGED <<notifications, unreadCount, reminders, done>>
  /\ UNCHANGED <<now, authVars, envVars, uVars, rVars, sTimers, sBoot>>

\* checkIfAuthenticated (line 1813), re-armed every second until the session
\* is authenticated: then one checkReminders and a second interval.
SCheckIfAuthenticated ==
  /\ sBoot = "waiting"
  /\ IF isAuthenticated
       THEN /\ CheckRemindersS
            /\ sTimers' = sTimers \cup {"boot"}
            /\ sBoot' = "started"
       ELSE /\ out' = {}
            /\ caught' = {}
            /\ UNCHANGED <<notifications, unreadCount, reminders, done, sTimers, sBoot>>
  /\ UNCHANGED <<now, authVars, envVars, uVars, rVars>>

\* The interval of line 1819: it looks at isAuthenticated.
SBootTimerFire ==
  /\ "boot" \in sTimers
  /\ IF isAuthenticated
       THEN CheckRemindersS
       ELSE out' = {} /\ caught' = {} /\ UNCHANGED <<notifications, unreadCount, reminders, done>>
  /\ UNCHANGED <<now, authVars, envVars, uVars, rVars, sTimers, sBoot>>

\* fetchReminders: without tokens, or on a failed request, the catch leaves
\* the list alone; an OK response replaces the list by the server's
\* reminders, their notified and is_active flags included.
SFetchReminders ==
  /\ "S" \in mounted
  /\ isAuthenticated
  /\ \E ok \in BOOLEAN :
       reminders' = IF tokens /\ ok THEN server ELSE reminders
  /\ out' = {}
  /\ caught' = {}
  /\ UNCHANGED <<now, authVars, envVars, uVars, rVars, sTimers, sBoot,
                 notifications, unreadCount, done>>

\* removeNotification and markAsRead, as the user closes or reads an entry of
\* the notification center; the model lets the user do so where the reminder
\* store is loaded.  An entry's id is its place in the list.
RemoveAt(seq, i) == SubSeq(seq, 1, i - 1) \o SubSeq(seq, i + 1, Len(seq))

\* removeNotification(id): the entry is filtered out and unreadCount goes
\* down by one when the entry was found and unread.
RemoveNotificationCall(i) ==
  /\ notifications' = IF i \in 1..Len(notifications)
                        THEN RemoveAt(notifications, i) ELSE notifications
  /\ unreadCount' = IF i \in 1..Len(notifications) /\ ~notifications[i].read
                      THEN unreadCount - 1 ELSE unreadCount

\* markAsRead(id): the entry with that id, if any, gets read = true and
\* unreadCount goes down by one.
MarkAsReadCall(i) ==
  /\ notifications' = [k \in 1..Len(notifications) |->
                         IF k = i THEN [notifications[k] EXCEPT !.read = TRUE]
                         ELSE notifications[k]]
  /\ unreadCount' = unreadCount - 1

RemoveNotification ==
  /\ "S" \in mounted
  /\ \E i \in 1..Len(notifications) : RemoveNotificationCall(i)
  /\ out' = {}
  /\ caught' = {}
  /\ UNCHANGED <<now, authVars, envVars, uVars, rVars, sVars, done>>

\* The button of the notification center, which unread entries have.
MarkAsRead ==
  /\ "S" \in mounted
  /\ \E i \in 1..Len(notifications) :
       ~notifications[i].read /\ MarkAsReadCall(i)
  /\ out' = {}
  /\ caught' = {}
  /\ UNCHANGED <<now, authVars, envVars, uVars, rVars, sVars, done>>

\* --------------------- notification store: checkCallbackNotifications
\* new Date(...).toDateString(): the calendar day of an instant
ToDateString(t) == t \div MinutesPerDay

\* createLocalDateTime(lead.callbackDate, lead.callbackTime)
createLocalDateTime(dateString, timeString) ==
  dateString * MinutesPerDay + timeString

\* Lines 157-171 for one lead: the callback time has come and the list read
\* at line 147 holds no 'callback' entry of this lead, callback date and
\* time and user that was created today.
NotifiedToday(notifs, id, lead, u, t) ==
  \E i \in 1..Len(notifs) :
     /\ notifs[i].type = "callback"
     /\ notifs[i].leadId = id
     /\ notifs[i].callbackDate = lead.callbackDate
     /\ notifs[i].callbackTime = lead.callbackTime
     /\ notifs[i].userId = u
     /\ ToDateString(notifs[i].createdAt) = ToDateString(t)

CheckOneLead(id, snapshot, acc) ==
  LET lead == leads[id]
      n == [type |-> "callback", title |-> "callback",
            message |-> <<"L", lead.name>>, reminderId |-> "none",
            eventId |-> "none", leadId |-> id,
            callbackDate |-> lead.callbackDate,
            callbackTime |-> lead.callbackTime]
      notifs == AddNotification(acc.notifs, acc.u, n)
  IN IF lead = NoLead \/ lead.assignedTo # acc.u THEN acc
     ELSE IF /\ now >= createLocalDateTime(lead.callbackDate,
                                           lead.callbackTime)
             /\ ~NotifiedToday(snapshot, id, lead, acc.u, now)
       THEN [acc EXCEPT
               !.notifs = notifs,
               !.out = acc.out \cup
                       (IF notifs # acc.notifs
                          THEN {Emission("N", "center",
                                         <<id, acc.u, ToDateString(now)>>,
                                         lead, acc)}
                          ELSE {})]
     ELSE acc

RECURSIVE CheckLeadsFrom(_, _, _)
CheckLeadsFrom(ids, snapshot, acc) ==
  IF ids = {} THEN acc
  ELSE CheckLeadsFrom(ids \ {Min(ids)}, snapshot,
                      CheckOneLead(Min(ids), snapshot, acc))

\* checkCallbackNotifications: nothing without an authenticated user.
CheckCallbackNotifications ==
  LET acc == [notifs |-> notifications, out |-> {}, seen |-> done,
              u |-> user]
      r == IF isAuthenticated /\ user # NoUser
             THEN CheckLeadsFrom(LeadIds, notifications, acc)
             ELSE acc
  IN /\ notifications' = r.notifs
     /\ unreadCount' = UnreadAfterAdding(r.notifs)
     /\ out' = r.out
     /\ caught' = {}
     /\ done' = done \cup Keys(r.out)

\* checkIfAuthenticated (line 206), re-armed every second until the session
\* is authenticated: then one check and the one-minute interval.
NCheckIfAuthenticated ==
  /\ nTimer = "waiting"
  /\ IF isAuthenticated
       THEN CheckCallbackNotifications /\ nTimer' = "armed"
       ELSE out' = {} /\ caught' = {} /\ UNCHANGED <<notifications, unreadCount, done, nTimer>>
  /\ UNCHANGED <<now, authVars, server, tzOffset, mounted, osNotification,
                 pageVars, leads, toastContainer, serviceWorker,
                 permissionRequests, uVars, rVars, sVars>>

\* The interval of line 213.
NIntervalFire ==
  /\ nTimer = "armed"
  /\ IF isAuthenticated
       THEN CheckCallbackNotifications
       ELSE out' = {} /\ caught' = {} /\ UNCHANGED <<notifications, unreadCount, done>>
  /\ UNCHANGED <<now, authVars, envVars, uVars, rVars, sVars>>

\* handleClose of ToastContainer: removeNotification(id) for an entry of
\* the list.
HandleClose ==
  /\ toastContainer = "mounted"
  /\ \E i \in 1..Len(notifications) : RemoveNotificationCall(i)
  /\ out' = {}
  /\ caught' = {}
  /\ UNCHANGED <<now, authVars, envVars, uVars, rVars, sVars, done>>

\* handleDismiss of the reminder banner: markAsRead(notification.id) with
\* the entry found in the list of the render that drew the banner, which
\* may since have been read or removed (id 0: no entry has it).
HandleDismiss ==
  /\ unreadCount > 0 - MaxStale
  /\ \E i \in 0..Len(notifications) : MarkAsReadCall(i)
  /\ out' = {}
  /\ caught' = {}
  /\ UNCHANGED <<now, authVars, envVars, uVars, rVars, sVars, done>>

\* markAllAsRead: nothing without a user; the user's entries become read and
\* unreadCount becomes 0.
MarkAllAsRead ==
  /\ IF user = NoUser THEN UNCHANGED <<notifications, unreadCount>>
     ELSE /\ notifications' =
               [k \in 1..Len(notifications) |->
                  IF notifications[k].userId = user
                    THEN [notifications[k] EXCEPT !.read = TRUE]
                    ELSE notifications[k]]
          /\ unreadCount' = 0
  /\ out' = {}
  /\ caught' = {}
  /\ UNCHANGED <<now, authVars, envVars, uVars, rVars, sVars, done>>

\* clearAll: nothing without a user; the user's entries are filtered out and
\* unreadCount becomes 0.
ClearAll ==
  /\ IF user = NoUser THEN UNCHANGED <<notifications, unreadCount>>
     ELSE /\ notifications' =
               SelectSeq(notifications, LAMBDA n : n.userId # user)
          /\ unreadCount' = 0
  /\ out' = {}
  /\ caught' = {}
  /\ UNCHANGED <<now, authVars, envVars, uVars, rVars, sVars, done>>

\* The night passes: the same time of the next day.
Midnight ==
  /\ now < MinutesPerDay
  /\ now' = now + MinutesPerDay
  /\ out' = {}
  /\ caught' = {}
  /\ UNCHANGED <<authVars, envVars, uVars, rVars, sVars, notifications,
                 unreadCount, done>>

\* ------------------------------------ notification permission requests
\* Notification.requestPermission() called by one of the three places that
\* call it, with the permission value at the time of the call.
Requested(by) ==
  Append(permissionRequests, [by |-> by, permission |-> osNotification])

\* The effect ToastContainer runs when it mounts: the request when the
\* permission is 'default', then checkCallbackNotifications().
ToastContainerMount ==
  /\ toastContainer = "unmounted"
  /\ toastContainer' = "mounted"
  /\ permissionRequests' =
       IF osNotification # "absent" /\ osNotification = "default"
         THEN Requested("ToastContainer") ELSE permissionRequests
  /\ CheckCallbackNotifications
  /\ UNCHANGED <<now, authVars, server, tzOffset, mounted, osNotification,
                 pageVars, leads, nTimer, serviceWorker, uVars, rVars, sVars>>

\* new NotificationService(): setupServiceWorker starts; with a service
\* worker and the Notification API at hand it registers /sw.js and waits.
ServiceLoad ==
  /\ serviceWorker = "unloaded"
  /\ serviceWorker' = IF osNotification # "absent" THEN "registering"
                      ELSE "skipped"
  /\ out' = {}
  /\ caught' = {}
  /\ UNCHANGED <<now, authVars, server, tzOffset, mounted, osNotification,
                 pageVars, leads, nTimer, toastContainer, permissionRequests,
                 uVars, rVars, sVars, notifications, unreadCount, done>>

\* setupServiceWorker after register(): a rejection is caught; otherwise the
\* request when the permission is 'default'.
ServiceRegistered ==
  /\ serviceWorker = "registering"
  /\ \E ok \in BOOLEAN :
       /\ serviceWorker' = IF ok THEN "registered" ELSE "failed"
       /\ permissionRequests' =
            IF ok /\ osNotification # "absent" /\ osNotification = "default"
              THEN Requested("NotificationService") ELSE permissionRequests
  /\ out' = {}
  /\ caught' = {}
  /\ UNCHANGED <<now, authVars, server, tzOffset, mounted, osNotification,
                 pageVars, leads, nTimer, toastContainer, uVars, rVars,
                 sVars, notifications, unreadCount, done>>

\* requestNotificationPermission(): the request wherever notifications are
\* supported.
RequestNotificationPermission ==
  /\ Len(permissionRequests) < MaxRequests
  /\ permissionRequests' =
       IF osNotification # "absent"
         THEN Requested("requestNotificationPermission")
         ELSE permissionRequests
  /\ out' = {}
  /\ caught' = {}
  /\ UNCHANGED <<now, authVars, server, tzOffset, mounted, osNotification,
                 pageVars, leads, nTimer, toastContainer, serviceWorker,
                 uVars, rVars, sVars, notifications, unreadCount, done>>

\* The user answers the prompt a request has opened; closing the prompt
\* leaves the permission 'default'.
PromptAnswered ==
  /\ permissionRequests # <<>>
  /\ osNotification = "default"
  /\ osNotification' \in {"granted", "denied"}
  /\ out' = {}
  /\ caught' = {}
  /\ UNCHANGED <<now, authVars, server, tzOffset, mounted, pageVars, appVars,
                 uVars, rVars, sVars, notifications, unreadCount, done>>

\* ------------------------------------------- the due-reminder queries
\* The rows a query hands back, each with its id.
Row(id, r) == [id |-> id, row |-> r]

\* getDueReminders: isActive, not notified, and
\* (reminderDateTime - now) / 60000 <= advanceNotice
IsDueS(reminder, t) ==
  /\ reminder # NoEvent
  /\ ~(~reminder.isActive \/ reminder.notified)
  /\ reminder.startTime - t <= reminder.advanceNotice

GetDueReminders ==
  /\ returned' = [by |-> "getDueReminders", at |-> now,
                  rows |-> {Row(id, reminders[id]) :
                              id \in {i \in EventIds : IsDueS(reminders[i], now)}}]
  /\ out' = {}
  /\ caught' = {}
  /\ UNCHANGED <<now, authVars, server, tzOffset, mounted, osNotification, appVars,
                 formData, serverData, shown, uVars, rVars, sVars,
                 notifications, unreadCount, done>>

\* ReminderModel.findDue: WHERE is_active = true AND notified = false AND
\* event_type = 'reminder' AND
\* EXTRACT(EPOCH FROM (start_time - NOW())) / 60 <= advance_notice
IsDueRow(event, t) ==
  /\ event # NoEvent
  /\ event.isActive = TRUE
  /\ event.notified = FALSE
  /\ event.eventType = "reminder"
  /\ event.startTime - t <= event.advanceNotice

FindDue ==
  /\ returned' = [by |-> "findDue", at |-> now,
                  rows |-> {Row(id, server[id]) :
                              id \in {i \in EventIds : IsDueRow(server[i], now)}}]
  /\ out' = {}
  /\ caught' = {}
  /\ UNCHANGED <<now, authVars, server, tzOffset, mounted, osNotification, appVars,
                 formData, serverData, shown, uVars, rVars, sVars,
                 notifications, unreadCount, done>>

\* ------------------------------- Reminders page: addEvent, updateEvent
\* A calendar date is a day number and a time of day is a minute of the
\* day; an instant is counted in minutes of UTC.  A date-time string is the
\* pair of its date and time with the suffix it carries: "Z" or none.
BrowserOffsets == {-180, -120, 0, 300}
Dates == {10, 11, 12}
Times == {0, 90, 150, 720, 1200, 1410}

\* `${date}T${time}:00`
formatToLocalISOString(date, time) == [date |-> date, time |-> time, z |-> FALSE]

\* `${dateString}T${timeString}:00.000Z`; neither string is empty here.
createSimpleISOString(dateString, timeString) ==
  [date |-> dateString, time |-> timeString, z |-> TRUE]

\* new Date(string): a string without a suffix is read as local time, one
\* with "Z" as UTC.
NewDate(str) ==
  str.date * MinutesPerDay + str.time + (IF str.z THEN 0 ELSE tzOffset)

\* date.toISOString().split('T')[0]: the date in UTC
ToISODate(instant) == instant \div MinutesPerDay

\* date.toTimeString().split(' ')[0].substring(0, 5): the local HH:MM
ToTimeStringHHMM(instant) == (instant - tzOffset) % MinutesPerDay

\* The four lines addEvent and updateEvent share.
SimpleStartTime(startTime) ==
  LET startDate == NewDate(startTime)
      startDateString == ToISODate(startDate)
      startTimeString == ToTimeStringHHMM(startDate)
  IN  createSimpleISOString(startDateString, startTimeString)

\* handleSubmit of the Reminders page, with the store call it awaits: the
\* store throws before any request when a token is missing.
Submitted(date, time, editing) ==
  [startDate |-> date, startTime |-> time, editing |-> editing]

RequestOf(startTimeFormatted, tok) ==
  IF tok THEN [startTime |-> SimpleStartTime(startTimeFormatted)]
  ELSE NoRequest

AddEvent ==
  \E date \in Dates, time \in Times :
    /\ formData' = Submitted(date, time, FALSE)
    /\ serverData' = RequestOf(formatToLocalISOString(date, time), tokens)
    /\ out' = {}
    /\ caught' = {}
    /\ UNCHANGED <<now, authVars, server, tzOffset, mounted, osNotification, appVars,
                   shown, returned, uVars, rVars, sVars, notifications, unreadCount,
                   done>>

UpdateEvent ==
  \E date \in Dates, time \in Times :
    /\ formData' = Submitted(date, time, TRUE)
    /\ serverData' = RequestOf(formatToLocalISOString(date, time), tokens)
    /\ out' = {}
    /\ caught' = {}
    /\ UNCHANGED <<now, authVars, server, tzOffset, mounted, osNotification, appVars,
                   shown, returned, uVars, rVars, sVars, notifications, unreadCount,
                   done>>

\* ------------------------------------------------ normalizeTimeString
\* A string is the sequence of its characters; an argument is a string or
\* is absent (undefined, null).
MaxLen == 4
Chars == {"0", "7", ":"}

RECURSIVE StringsOfLength(_)
StringsOfLength(n) ==
  IF n = 0 THEN {<<>>}
  ELSE {Append(str, c) : str \in StringsOfLength(n - 1), c \in Chars}

TimeStrings ==
  {[given |-> FALSE, text |-> <<>>]} \cup
  {[given |-> TRUE, text |-> str] :
     str \in UNION {StringsOfLength(n) : n \in 0..MaxLen}}

\* timeString.split(':')
RECURSIVE Split(_)
Split(str) ==
  IF \A i \in 1..Len(str) : str[i] # ":" THEN <<str>>
  ELSE LET i == Min({k \in 1..Len(str) : str[k] = ":"})
       IN  <<SubSeq(str, 1, i - 1)>> \o Split(SubSeq(str, i + 1, Len(str)))

\* part.padStart(2, '0')
PadStart2(part) ==
  IF Len(part) >= 2 THEN part
  ELSE IF Len(part) = 1 THEN <<"0">> \o part
  ELSE <<"0", "0">>

normalizeTimeString(timeString) ==
  IF ~timeString.given \/ timeString.text = <<>>
    THEN <<"0", "0", ":", "0", "0">>
  ELSE LET timeParts == Split(timeString.text) IN
       IF Len(timeParts) >= 2
         THEN PadStart2(timeParts[1]) \o <<":">> \o PadStart2(timeParts[2])
         ELSE <<"0", "0", ":", "0", "0">>

NormalizeTimeString ==
  \E timeString \in TimeStrings :
    /\ returned' = [by |-> "normalizeTimeString", of |-> timeString,
                    result |-> normalizeTimeString(timeString)]
    /\ out' = {}
    /\ caught' = {}
    /\ UNCHANGED <<now, authVars, server, tzOffset, mounted, osNotification,
                   appVars, formData, serverData, shown, uVars, rVars, sVars,
                   notifications, unreadCount, done>>

\* --------------------------------------- conversions to Israel time
\* Instants are minutes of UTC counted from 1 January 00:00 of a common
\* year; the instants converted lie on the 15th of each month, where the
\* month of the runtime's local time is the month of the instant.
MonthStart == <<0, 31, 59, 90, 120, 151, 181, 212, 243, 273, 304, 334>>
Months == 1..12
Instants ==
  {(MonthStart[m] + 14) * MinutesPerDay + t : m \in Months, t \in {30, 720, 1410}}

\* date.getMonth(): the month of the runtime's local time, 0 = January
GetMonth(date) ==
  LET day == (date - tzOffset) \div MinutesPerDay
  IN  Cardinality({m \in Months : MonthStart[m] <= day}) - 1

\* month >= 3 && month <= 8
isIsraelDST(date) == GetMonth(date) >= 3 /\ GetMonth(date) <= 8

\* isIsraelDST(date) ? 3 : 2
getIsraelTimezoneOffset(date) == IF isIsraelDST(date) THEN 3 ELSE 2

\* new Date(utcDate.getTime() + (offset * 60 * 60 * 1000))
utcToIsraelTime(utcDate) == utcDate + getIsraelTimezoneOffset(utcDate) * 60

\* new Date(israelDate.getTime() - (offset * 60 * 60 * 1000))
israelTimeToUtc(israelDate) ==
  israelDate - getIsraelTimezoneOffset(israelDate) * 60

\* Instants up to three and a half hours before and after the first
\* midnight (UTC) of April and of October.
BoundaryInstants ==
  {MonthStart[m] * MinutesPerDay + h * 60 + 30 : m \in {4, 10}, h \in -4..3}

\* utcToIsraelTime and back.
RoundTrip ==
  \E d \in Instants \cup BoundaryInstants :
    /\ returned' = [by |-> "israelTimeToUtc", of |-> d,
                    result |-> israelTimeToUtc(utcToIsraelTime(d))]
    /\ out' = {}
    /\ caught' = {}
    /\ UNCHANGED <<now, authVars, server, tzOffset, mounted, osNotification,
                   appVars, formData, serverData, shown, uVars, rVars, sVars,
                   notifications, unreadCount, done>>

\* return -180
getJerusalemTimezoneOffset == -180

\* new Date(date.getTime() + (offsetDiff * 60000))
toJerusalemTime(date) ==
  LET jerusalemOffset == getJerusalemTimezoneOffset
      localOffset == tzOffset
      offsetDiff == jerusalemOffset - localOffset
  IN  date + offsetDiff

\* One conversion: who made it, of which instant, the Date returned and the
\* offset east of UTC, in minutes, the conversion took for Israel.
Conversion(by, instant, result, offset) ==
  [by |-> by, of |-> instant, result |-> result, offset |-> offset]

\* setup-db.js: utcToIsraelTime
DbUtcToIsraelTime ==
  \E utcDate \in Instants :
    /\ shown' = Conversion("setup-db", utcDate, utcToIsraelTime(utcDate),
                           getIsraelTimezoneOffset(utcDate) * 60)
    /\ out' = {}
    /\ caught' = {}
    /\ UNCHANGED <<now, authVars, server, tzOffset, mounted, osNotification, appVars,
                   formData, serverData, returned, uVars, rVars, sVars,
                   notifications, unreadCount, done>>

\* useReminderNotifications: utcToIsraelTime
HookUtcToIsraelTime ==
  \E utcDate \in Instants :
    /\ shown' = Conversion("useReminderNotifications", utcDate,
                           utcToIsraelTime(utcDate),
                           (IF isIsraelDST(utcDate) THEN 3 ELSE 2) * 60)
    /\ out' = {}
    /\ caught' = {}
    /\ UNCHANGED <<now, authVars, server, tzOffset, mounted, osNotification, appVars,
                   formData, serverData, returned, uVars, rVars, sVars,
                   notifications, unreadCount, done>>

\* dateUtils: toJerusalemTime
ToJerusalemTime ==
  \E date \in Instants :
    /\ shown' = Conversion("dateUtils", date, toJerusalemTime(date),
                           0 - getJerusalemTimezoneOffset)
    /\ out' = {}
    /\ caught' = {}
    /\ UNCHANGED <<now, authVars, server, tzOffset, mounted, osNotification, appVars,
                   formData, serverData, returned, uVars, rVars, sVars,
                   notifications, unreadCount, done>>

\* ------------------------------------------------ session and clock
\* Login: the auth store holds a user, the tokens are stored, and the effects
\* of both hooks run: fetchEvents(), one checkReminders pass and the 30 s
\* interval for hook U; one checkUnifiedEvents call and the 15 s interval
\* for hook R.
LoginAs(u) ==
  /\ ~isAuthenticated
  /\ "R" \in mounted => BagCardinality(rTicks) < MaxInFlight
  /\ u \in Users
  /\   /\ user' = u
       /\ isAuthenticated' = TRUE
       /\ tokens' = TRUE
       /\ IF "U" \in mounted
            THEN /\ uFetch' = FetchEventsCall(TRUE)
                 /\ isLoading' = TRUE
                 /\ uTimer' = TRUE
                 /\ LET r == CheckRemindersU(notifications, u, TRUE, {})
                    IN /\ notifications' = r.notifs /\ unreadCount' = UnreadAfterAdding(r.notifs)
                       /\ uMarks' = r.marks
                       /\ out' = r.out
                       /\ caught' = CaughtBy(r.failed)
                       /\ done' = Keys(r.out) \cup r.failed
            ELSE /\ out' = {}
                 /\ caught' = {}
                 /\ done' = {}
                 /\ UNCHANGED <<uFetch, uTimer, uMarks, isLoading,
                                notifications, unreadCount>>
       /\ IF "R" \in mounted
            THEN /\ rTimer' = TRUE
                 /\ rTicks' = StartTickR(rTicks, TRUE)
            ELSE UNCHANGED <<rTimer, rTicks>>
  /\ UNCHANGED <<now, envVars, events, uDelete, notifiedEventsRef, rMarks,
                 sVars>>

\* Logout: the auth store is cleared, the tokens are removed, and the
\* cleanups of both effects run clearInterval.  Calls still waiting for
\* their fetch are left as they are.
Logout ==
  /\ isAuthenticated
  /\ user' = NoUser
  /\ isAuthenticated' = FALSE
  /\ tokens' = FALSE
  /\ uTimer' = FALSE
  /\ rTimer' = FALSE
  /\ out' = {}
  /\ caught' = {}
  /\ UNCHANGED <<now, envVars, events, uFetch, uMarks, storeVars,
                 notifiedEventsRef,
                 rTicks, rMarks, sVars, notifications, unreadCount, done>>

\* The tokens disappear from localStorage while the session goes on.
TokensCleared ==
  /\ tokens
  /\ isAuthenticated
  /\ tokens' = FALSE
  /\ out' = {}
  /\ caught' = {}
  /\ UNCHANGED <<now, user, isAuthenticated, envVars, uVars, rVars,
                 sVars, notifications, unreadCount, done>>

\* ReminderModel.create: the INSERT into unified_events of a row of type
\* 'reminder' with is_active true and notified false, its start time and
\* advance notice as the request names them.  The row appears in the
\* repository only; no client's store is told.
ReminderModelCreate ==
  \E id \in EventIds, notice \in Notices \ {0} :
     /\ server[id] = NoEvent
     /\ server' = [server EXCEPT ![id] =
                     [eventType |-> "reminder", startTime |-> 12,
                      advanceNotice |-> notice, isActive |-> TRUE,
                      notified |-> FALSE, title |-> TitleOf[id]]]
     /\ out' = {}
     /\ caught' = {}
     /\ UNCHANGED <<now, authVars, tzOffset, mounted, osNotification,
                    pageVars, appVars, uVars, rVars, sVars, notifications,
                    unreadCount, done>>

\* A minute of a session whose 30 s interval keeps firing: the requests of
\* the minute have been answered, checkReminders runs, and the clock moves
\* on to the next minute.
UTimerFireEachMinute ==
  /\ uTimer
  /\ now < MaxTime
  /\ uFetch = Idle
  /\ uMarks = {}
  /\ LET r == CheckRemindersU(notifications, user, tokens, done)
     IN /\ notifications' = r.notifs
        /\ unreadCount' = UnreadAfterAdding(r.notifs)
        /\ uMarks' = r.marks
        /\ out' = r.out
        /\ caught' = CaughtBy(r.failed)
        /\ done' = done \cup Keys(r.out) \cup r.failed
  /\ now' = now + 1
  /\ UNCHANGED <<authVars, envVars, events, uFetch, uTimer, storeVars,
                 rVars, sVars>>

\* A minute passes.
Advance ==
  /\ now < MaxTime
  /\ now' = now + 1
  /\ out' = {}
  /\ caught' = {}
  /\ UNCHANGED <<authVars, envVars, uVars, rVars, sVars, notifications, unreadCount,
                 done>>

\* The repository at the start: reminders that are active with every
\* advance notice, and one inactive reminder and one meeting per start time;
\* nothing has been notified yet.
InitialEvents(starts) ==
  {ev \in EventRec :
     /\ ~ev.notified
     /\ ev.startTime \in starts
     /\ (ev.eventType # "reminder" \/ ~ev.isActive) =>
          (ev.advanceNotice = 2 /\ (ev.eventType = "reminder" \/ ev.isActive))}

\* The reminders the store holds at the start: active ones with every
\* advance notice and an inactive one; nothing has been notified yet.
InitialReminders ==
  {r \in [startTime : {12}, advanceNotice : Notices, isActive : BOOLEAN,
          notified : {FALSE}] :
     ~r.isActive => r.advanceNotice = 2}

InitWithEnv(hooks, offsets, servers, os) ==
  /\ mounted = hooks
  /\ osNotification \in os
  /\ formData = NoForm
  /\ serverData = NoRequest
  /\ shown = NothingShown
  /\ returned = NothingReturned
  /\ AppJustLoaded
  /\ now = 0
  /\ user = NoUser
  /\ isAuthenticated = FALSE
  /\ tokens = FALSE
  /\ server \in servers
  /\ tzOffset \in offsets
  /\ events = [id \in EventIds |-> NoEvent]
  /\ uFetch = Idle
  /\ uDelete = {}
  /\ isLoading = FALSE
  /\ caught = {}
  /\ uTimer = FALSE
  /\ uMarks = {}
  /\ rTimer = FALSE
  /\ notifiedEventsRef = {}
  /\ rTicks = EmptyBag
  /\ rMarks = {}
  /\ reminders = [id \in EventIds |-> NoEvent]
  /\ sTimers = {}
  /\ sBoot = "off"
  /\ notifications = <<>>
  /\ unreadCount = 0
  /\ out = {}
  /\ done = {}

OwnTitles(f) == \A id \in EventIds : f[id].title = TitleOf[id]

InitWithServer(hooks, offsets, servers) ==
  InitWithEnv(hooks, offsets, servers, {"granted"})

InitWith(hooks, offsets, starts) ==
  InitWithServer(hooks, offsets,
    {f \in [EventIds -> InitialEvents(starts)] : OwnTitles(f)})

Session(accounts) ==
  \/ \E u \in accounts : LoginAs(u)
  \/ Logout
  \/ TokensCleared
  \/ Advance

HookU ==
  \/ UTimerFire
  \/ UFetchServe
  \/ UFetchDeliver
  \/ UMarkDone

HookR ==
  \/ RTimerFire
  \/ RFetchServe
  \/ RFetchDeliver
  \/ RMarkDone

StoreS ==
  \/ SModuleTimerFire
  \/ SCheckIfAuthenticated
  \/ SBootTimerFire
  \/ SFetchReminders
  \/ RemoveNotification
  \/ MarkAsRead

\* The application with useUnifiedEventNotifications mounted, in a browser
\* at either offset; the events start at minute 12 of its wall clock.
InitU == \E tz \in TzOffsets : InitWith({"U"}, {tz}, {12 - tz})

\* The application with useReminderNotifications mounted; the hook never
\* reads the browser's timezone offset.
InitR == InitWith({"R"}, {0}, {12})

\* The application with the reminder store loaded: its first interval is
\* armed, checkIfAuthenticated is pending, and the list is the server's.
InitS ==
  /\ mounted = {"S"}
  /\ osNotification = "granted"
  /\ formData = NoForm
  /\ serverData = NoRequest
  /\ shown = NothingShown
  /\ returned = NothingReturned
  /\ AppJustLoaded
  /\ now = 0
  /\ user = NoUser
  /\ isAuthenticated = FALSE
  /\ tokens = FALSE
  /\ server \in [EventIds -> InitialReminders]
  /\ tzOffset = 0
  /\ events = [id \in EventIds |-> NoEvent]
  /\ uFetch = Idle
  /\ uDelete = {}
  /\ isLoading = FALSE
  /\ caught = {}
  /\ uTimer = FALSE
  /\ uMarks = {}
  /\ rTimer = FALSE
  /\ notifiedEventsRef = {}
  /\ rTicks = EmptyBag
  /\ rMarks = {}
  /\ reminders = server
  /\ sTimers = {"module"}
  /\ sBoot = "waiting"
  /\ notifications = <<>>
  /\ unreadCount = 0
  /\ out = {}
  /\ done = {}

\* The repository holding one reminder whose start time is no date next to
\* an active reminder of either of two advance notices.
BadDateEvents ==
  [eventType : {"reminder"}, startTime : BadDates, advanceNotice : {2},
   isActive : {TRUE}, notified : {FALSE}, title : Titles]

ServersWithBadDate(starts) ==
  {f \in [EventIds -> BadDateEvents \cup InitialEvents(starts)] :
     \E bad, good \in EventIds :
        /\ OwnTitles(f)
        /\ f[bad] \in BadDateEvents
        /\ f[good] \in InitialEvents(starts)
        /\ f[good].eventType = "reminder"
        /\ f[good].isActive
        /\ f[good].advanceNotice \in {2, 12}}

InitBadDate ==
  \/ InitWithServer({"U"}, {0}, ServersWithBadDate({12}))
  \/ InitWithServer({"R"}, {0}, ServersWithBadDate({12}))

NextHooks == Session({"A"}) \/ HookU \/ HookR
SpecBadDate == InitBadDate /\ [][NextHooks]_vars

\* useUnifiedEventNotifications over a repository of two active reminders
\* with the same title, customer and start time.
ServersWithSameTitle ==
  {f \in [EventIds -> InitialEvents({12})] :
     \A id \in EventIds :
        /\ f[id].eventType = "reminder"
        /\ f[id].isActive
        /\ f[id].title = "call"}

InitSameTitle == InitWithServer({"U"}, {0}, ServersWithSameTitle)
NextU == Session({"A"}) \/ HookU
SpecSameTitle == InitSameTitle /\ [][NextU]_vars

\* Either hook over a repository that holds, next to an active reminder, an
\* active, un-notified event of another kind with any advance notice.
OtherKinds == {"meeting", "task", "no-reminder"}

OtherKindEvents ==
  [eventType : OtherKinds, startTime : {12}, advanceNotice : Notices,
   isActive : {TRUE}, notified : {FALSE}, title : Titles]

ServersWithOtherKinds ==
  {f \in [EventIds -> OtherKindEvents \cup InitialEvents({12})] :
     /\ OwnTitles(f)
     /\ f[1] \in OtherKindEvents
     /\ f[2].eventType = "reminder" /\ f[2].isActive
     /\ f[2].advanceNotice = 2}

InitKinds ==
  \/ InitWithServer({"U"}, {0}, ServersWithOtherKinds)
  \/ InitWithServer({"R"}, {0}, ServersWithOtherKinds)

SpecKinds == InitKinds /\ [][NextHooks]_vars

\* useUnifiedEventNotifications over two active reminders of the same title
\* that are due from minute 0 on, in a browser of each kind.
InitChannels ==
  InitWithEnv({"U"}, {0},
              {f \in ServersWithSameTitle :
                 \A id \in EventIds : f[id].advanceNotice = 12},
              OsStates)

SpecChannels == InitChannels /\ [][NextU]_vars

\* The application with one of the three pollers, and one account.
\* The Reminders page in browsers of four UTC offsets, no poller mounted.
InitPage ==
  InitWithServer({}, BrowserOffsets,
    {f \in [EventIds -> InitialEvents({12})] :
       OwnTitles(f) /\ \A id \in EventIds : f[id].advanceNotice = 2
                                            /\ f[id].isActive
                                            /\ ~f[id].notified})
SignInOut == (\E u \in {"A"} : LoginAs(u)) \/ Logout \/ TokensCleared
NextForm == SignInOut \/ AddEvent \/ UpdateEvent
SpecForm == InitPage /\ [][NextForm]_vars

\* The three conversions applied to instants of every month.
NextDisplay == DbUtcToIsraelTime \/ HookUtcToIsraelTime \/ ToJerusalemTime
SpecDisplay == InitPage /\ [][NextDisplay]_vars

\* The repository and the reminder store's copy of its reminders, with rows
\* of every advance notice, active or not, notified or not; the clock runs
\* and the two queries are asked at any minute.
DueRows ==
  [startTime : {12}, advanceNotice : Notices, isActive : BOOLEAN,
   notified : BOOLEAN, eventType : EventTypes, title : {"call"}]

InitDue ==
  /\ mounted = {"S"}
  /\ osNotification = "granted"
  /\ formData = NoForm
  /\ serverData = NoRequest
  /\ shown = NothingShown
  /\ returned = NothingReturned
  /\ AppJustLoaded
  /\ now = 0
  /\ user = NoUser
  /\ isAuthenticated = FALSE
  /\ tokens = FALSE
  /\ server \in [EventIds -> DueRows]
  /\ tzOffset = 0
  /\ events = [id \in EventIds |-> NoEvent]
  /\ uFetch = Idle
  /\ uDelete = {}
  /\ isLoading = FALSE
  /\ caught = {}
  /\ uTimer = FALSE
  /\ uMarks = {}
  /\ rTimer = FALSE
  /\ notifiedEventsRef = {}
  /\ rTicks = EmptyBag
  /\ rMarks = {}
  /\ reminders = [id \in EventIds |->
                    IF server[id].eventType = "reminder" THEN server[id]
                    ELSE NoEvent]
  /\ sTimers = {"module"}
  /\ sBoot = "waiting"
  /\ notifications = <<>>
  /\ unreadCount = 0
  /\ out = {}
  /\ done = {}

NextDue == Advance \/ GetDueReminders \/ FindDue
SpecDue == InitDue /\ [][NextDue]_vars

\* The application loading in a browser of any permission value, with
\* the leads given.
Permissions == {"absent", "default", "granted", "denied"}

LeadsAt(times) ==
  [assignedTo : Users, name : {"n"}, callbackDate : {0},
   callbackTime : times]

InitApp(permissions, leadSets) ==
  /\ mounted = {}
  /\ osNotification \in permissions
  /\ formData = NoForm
  /\ serverData = NoRequest
  /\ shown = NothingShown
  /\ returned = NothingReturned
  /\ leads \in leadSets
  /\ nTimer = "waiting"
  /\ toastContainer = "unmounted"
  /\ serviceWorker = "unloaded"
  /\ permissionRequests = <<>>
  /\ now = 0
  /\ user = NoUser
  /\ isAuthenticated = FALSE
  /\ tokens = FALSE
  /\ server \in [EventIds -> {NoEvent}]
  /\ tzOffset = 0
  /\ events = [id \in EventIds |-> NoEvent]
  /\ uFetch = Idle
  /\ uDelete = {}
  /\ isLoading = FALSE
  /\ caught = {}
  /\ uTimer = FALSE
  /\ uMarks = {}
  /\ rTimer = FALSE
  /\ notifiedEventsRef = {}
  /\ rTicks = EmptyBag
  /\ rMarks = {}
  /\ reminders = [id \in EventIds |-> NoEvent]
  /\ sTimers = {}
  /\ sBoot = "off"
  /\ notifications = <<>>
  /\ unreadCount = 0
  /\ out = {}
  /\ done = {}

InitPermission == InitApp(Permissions, {[id \in LeadIds |-> NoLead]})
NextPermission ==
  \/ SignInOut
  \/ ToastContainerMount
  \/ ServiceLoad
  \/ ServiceRegistered
  \/ RequestNotificationPermission
  \/ PromptAnswered
SpecPermission == InitPermission /\ [][NextPermission]_vars

\* normalizeTimeString applied to every string of up to MaxLen characters.
InitNormalize == InitApp({"granted"}, {[id \in LeadIds |-> NoLead]})
NextNormalize == NormalizeTimeString
SpecNormalize == InitNormalize /\ [][NextNormalize]_vars

\* The notification store checking callbacks: lead 1 is the user's, lead 2
\* is anyone's or missing, and the callbacks fall late on day 0.
InitCallbacks ==
  InitApp({"granted"},
          {l \in [LeadIds -> LeadsAt({12}) \cup {NoLead}] :
             l[1] # NoLead /\ l[1].assignedTo = "A"})
NextCallbacks ==
  \/ SignInOut
  \/ Advance
  \/ Midnight
  \/ ToastContainerMount
  \/ NCheckIfAuthenticated
  \/ NIntervalFire
  \/ HandleClose
  \/ HandleDismiss
  \/ ClearAll
SpecCallbacks == InitCallbacks /\ [][NextCallbacks]_vars

\* The notification store shared by two users, each with a lead whose
\* callback is due, and every operation of the store.
InitUnread ==
  InitApp({"granted"},
          {l \in [LeadIds -> LeadsAt({0})] :
             l[1].assignedTo = "A" /\ l[2].assignedTo = "B"})
NextUnread ==
  \/ \E u \in Users : LoginAs(u)
  \/ Logout
  \/ TokensCleared
  \/ ToastContainerMount
  \/ NCheckIfAuthenticated
  \/ NIntervalFire
  \/ HandleClose
  \/ HandleDismiss
  \/ MarkAllAsRead
  \/ ClearAll
SpecUnread == InitUnread /\ [][NextUnread]_vars

\* The round trip through Israel time, in runtimes of four UTC offsets.
NextRoundTrip == RoundTrip
SpecRoundTrip == InitPage /\ [][NextRoundTrip]_vars

\* A session of hook U that stays authenticated, in a browser at offset 0:
\* the repository holds, for each id, no row yet or an active reminder that
\* has not been notified; rows are created while the poller runs.  The
\* interval fires in every minute, and every request is answered.
RemindersOrNothing ==
  {f \in [EventIds -> {NoEvent} \cup InitialEvents({12})] :
     \A id \in EventIds :
        f[id] # NoEvent =>
          /\ f[id].eventType = "reminder"
          /\ f[id].isActive
          /\ f[id].title = TitleOf[id]}

InitLive == InitWithServer({"U"}, {0}, RemindersOrNothing)

NextLive ==
  \/ \E u \in {"A"} : LoginAs(u)
  \/ ReminderModelCreate
  \/ UTimerFireEachMinute
  \/ UTimerFire
  \/ UFetchServe
  \/ UFetchDeliver
  \/ UMarkDone

SpecLive ==
  /\ InitLive
  /\ [][NextLive]_vars
  /\ WF_vars(\E u \in {"A"} : LoginAs(u))
  /\ WF_vars(UTimerFireEachMinute)
  /\ WF_vars(UTimerFire)
  /\ WF_vars(UFetchServe)
  /\ WF_vars(UFetchDeliver)
  /\ WF_vars(UMarkDone)

\* The unified event store of an authenticated session with the Reminders
\* page open: the page fetches and deletes, hook U fetches and marks, the
\* tokens may disappear, and every request may fail.  The clock stands at
\* minute 0, where the reminders with an advance notice of 12 are due.
NextStore ==
  \/ \E u \in {"A"} : LoginAs(u)
  \/ TokensCleared
  \/ FetchEvents
  \/ DeleteEvent
  \/ UDeleteDone
  \/ UFetchServe
  \/ UFetchDeliver
  \/ UTimerFire
  \/ UMarkDone

SpecStore == InitLive /\ [][NextStore]_vars

Init == InitU \/ InitR \/ InitS
Next == Session({"A"}) \/ HookU \/ HookR \/ StoreS
Spec == Init /\ [][Next]_vars

\* ------------------------------------------------------------- claims
\* The late tolerance a poller applies; the reminder store is held to the
\* larger of the two.
LateTolerance(hook) == IF hook = "U" THEN ToleranceU ELSE ToleranceR

\* C1: a pass of either hook dispatches an event with advance notice N only
\* at a time now with startTime - N <= now < startTime.
C1_DispatchOnlyInsideNoticeWindow ==
  \A e \in out :
     e.hook \in {"U", "R"} =>
       /\ e.ev.startTime - e.ev.advanceNotice <= e.at
       /\ e.at < e.ev.startTime

\* C2: in every poller, an event whose notice window opened more than the
\* late tolerance ago is not notified.
C2_NothingLaterThanTolerance ==
  \A e \in out :
     e.at - (e.ev.startTime - e.ev.advanceNotice) <= LateTolerance(e.hook)

\* C3: no pass dispatches an event that, in the event set the pass
\* evaluates, has notified = true or isActive = false.
C3_NeverNotifiedOrInactive ==
  \A e \in out : ~e.ev.notified /\ e.ev.isActive

\* C3, its case: a pass of hook U has just dispatched one event while the
\* store held another reminder, already notified, that is inside its notice
\* window and within the tolerance, and left that one alone.
C3_Witness ==
  \E e \in out, id \in EventIds :
     /\ e.hook = "U"
     /\ id # e.id
     /\ events[id] # NoEvent
     /\ events[id].eventType = "reminder"
     /\ events[id].isActive
     /\ events[id].notified
     /\ IsDueU(events[id], now)
     /\ \A f \in out : f.id # id

\* C4: within one session an event produces each emission (toast,
\* notification-center entry, mark-notified request) at most once, however
\* often it is evaluated as due.
C4_OneDispatchPerSession ==
  \A e \in out : ~e.again

\* C5: once a mark-notified call for an event has failed, no later pass of
\* the session shows its toast, adds its entry or sends the request again.
C5_NoRepeatAfterFailedMark ==
  \A e \in out : ~e.afterFail

\* C6: the dedup set holds only ids dispatched in the current session, so it
\* is empty when a new session starts.
C6_DedupSetScopedToSession ==
  notifiedEventsRef \subseteq {id \in EventIds : <<"R", "toast", id>> \in done}

\* C7: at most one call of checkUnifiedEvents is in flight at any time.
C7_OneTickInFlight ==
  BagCardinality(rTicks) <= 1

\* C8: while hook R is stopped, a call of it that was in flight at the stop
\* emits nothing, adds nothing to the dedup set and sends no mark-notified
\* request when its fetch completes.
C8_NoEffectAfterStop ==
  [][("R" \in mounted /\ ~rTimer /\ ~rTimer') =>
       /\ out' = {}
       /\ notifiedEventsRef' = notifiedEventsRef
       /\ rMarks' \subseteq rMarks]_vars

\* C9: a poller has a timer armed only while the session is authenticated
\* with a user, and never more than one.
C9_OneTimerOnlyWhileAuthenticated ==
  /\ uTimer => (isAuthenticated /\ user # NoUser)
  /\ rTimer => (isAuthenticated /\ user # NoUser)
  /\ sTimers # {} => (isAuthenticated /\ user # NoUser)
  /\ Cardinality(sTimers) <= 1

\* C10: while the session is unauthenticated no poller emits a notification.
C10_SilentWhileUnauthenticated ==
  out # {} => isAuthenticated

\* C11: a tick whose fetch failed evaluates nothing and stops nothing.  The
\* step of hook R that ends a call after a failed fetch emits nothing and
\* leaves the interval, the session's set, the pending PATCHes and the
\* notification center as they were; the step of fetchEvents that ends in
\* its catch leaves the events and the interval of hook U as they were.  The
\* next firing of the interval therefore runs as if the failed tick had never
\* been.
C11_FailedFetchChangesNothing ==
  [][/\ (\E t \in BagToSet(rTicks) :
            /\ t.st = "served"
            /\ ~t.ok
            /\ rTicks' = rTicks (-) SetToBag({t}))
          => /\ out' = {}
             /\ rTimer' = rTimer
             /\ notifiedEventsRef' = notifiedEventsRef
             /\ rMarks' = rMarks
             /\ notifications' = notifications
     /\ (uFetch.st = "served" /\ ~uFetch.ok /\ uFetch' = Idle)
          => /\ out' = {}
             /\ uTimer' = uTimer
             /\ events' = events
             /\ uMarks' = uMarks
             /\ notifications' = notifications]_vars

\* C11, its case: hook R is running with events already in its session's
\* set, the fetch of one of its calls has failed, and the interval has fired
\* again before that call ended.
C11_Witness ==
  /\ rTimer
  /\ notifiedEventsRef # {}
  /\ \E t, n \in BagToSet(rTicks) :
        /\ t.st = "served"
        /\ ~t.ok
        /\ n.st = "sent"

\* C12: an event whose start time is no date costs only itself.  Whenever
\* fetchEvents receives an OK response, every event of the response with a
\* proper start time reaches the store; and whenever a call of
\* checkUnifiedEvents walks an OK response, every event of it that passes the
\* filter, has a proper start time and is due gets its toast.
C12_OnlyTheBadEventIsSkipped ==
  [][/\ (uFetch.st = "served" /\ uFetch.ok /\ uFetch' = Idle)
          => \A id \in EventIds :
                ~IsNaN(uFetch.snap[id].startTime)
                  => events'[id] = FetchTransform(uFetch.snap[id])
     /\ \A t \in BagToSet(rTicks) :
          (t.st = "served" /\ t.ok /\ rTicks' = rTicks (-) SetToBag({t}))
            => \A id \in EventIds :
                  (/\ IsCandidateR(id, t.snap[id], notifiedEventsRef)
                   /\ IsDueR(t.snap[id], now))
                    => \E e \in out' :
                          e.hook = "R" /\ e.ch = "toast" /\ e.id = id]_vars

\* C13: every event a pass dispatches gets its own.  After a pass of hook U
\* that showed the toast of an event, the notification center holds an entry
\* of that event and, the tokens being there, a mark-notified request of that
\* event is on its way, whatever else was dispatched in the same pass.
C13_EachDueEventGetsItsOwn ==
  \A e \in out :
     (e.hook = "U" /\ e.ch = "toast") =>
       /\ \E i \in 1..Len(notifications) : notifications[i].eventId = e.id
       /\ tokens => e.id \in uMarks

C15_NoticeZeroNeverEarly ==
  \A e \in out :
     e.ev.advanceNotice = 0 => e.at >= e.ev.startTime

\* C16: a pass changes nothing of an event but its notified flag, and that
\* only to true.  Over every step other than the arrival of a fetched event
\* list, each reminder of the reminder store, each event of the event store
\* and each event of the repository keeps all its fields, except that
\* notified may go from false to true.
C16_PassesChangeOnlyNotified ==
  [][\A id \in EventIds :
        /\ reminders[id] # NoEvent
             => /\ reminders'[id] =
                     [reminders[id] EXCEPT !.notified = reminders'[id].notified]
                /\ reminders[id].notified => reminders'[id].notified
        /\ server[id] # NoEvent
             => /\ server'[id] =
                     [server[id] EXCEPT !.notified = server'[id].notified]
                /\ server[id].notified => server'[id].notified
        /\ (events[id] # NoEvent /\ uFetch.st # "served")
             => /\ events'[id] =
                     [events[id] EXCEPT !.notified = events'[id].notified]
                /\ events[id].notified => events'[id].notified]_vars

\* C17: an event that has been notified, its notified flag having become
\* true, is not notified again by any later pass.  For the hooks the flag has
\* become true when the repository says so; the reminder store sets its flag
\* in the very pass that notifies.
C17_NotifiedNeverFiresAgain ==
  \A e \in out :
     IF e.hook = "S" THEN ~e.again ELSE ~server[e.id].notified

\* C18: no channel stands in the way of the mark-notified request.  After a
\* pass of hook U that showed the toast of an event, and the tokens being
\* there, the PATCH for that event is on its way, whether or not the
\* notification center took the entry and whatever the browser's Notification
\* API did.
C18_MarkRequestDespiteChannelFailure ==
  \A e \in out :
     (e.ch = "toast" /\ e.hook = "U" /\ tokens) => e.id \in uMarks

\* C19: for every date and time entered and every browser offset, the
\* startTime that addEvent and updateEvent send carries exactly that date and
\* that time.
C19_SentStartTimeIsWhatWasEntered ==
  serverData # NoRequest =>
    /\ serverData.startTime.date = formData.startDate
    /\ serverData.startTime.time = formData.startTime

\* C20: every conversion of an instant to Israel time takes an offset of 3
\* hours when the instant's month is April to September and of 2 hours when
\* it is October to March.
C20_IsraelOffsetFollowsTheMonth ==
  shown # NothingShown =>
    LET month == Cardinality({m \in Months :
                   MonthStart[m] * MinutesPerDay <= shown.of})
    IN  shown.offset = IF month \in 4..9 THEN 180 ELSE 120

\* C21: getDueReminders and ReminderModel.findDue return a reminder only if
\* it is active, not notified and the current time lies inside its notice
\* window: startTime - advanceNotice <= now < startTime.
C21_DueOnlyInsideNoticeWindow ==
  returned.by \in {"getDueReminders", "findDue"} =>
    \A r \in returned.rows :
      /\ r.row.isActive
      /\ ~r.row.notified
      /\ r.row.startTime - r.row.advanceNotice <= returned.at
      /\ returned.at < r.row.startTime

\* C22: during one session the notification permission is requested at most
\* once, and only when its value is 'default'.
C22_PermissionRequestedOnceIfDefault ==
  /\ Len(permissionRequests) <= 1
  /\ \A i \in 1..Len(permissionRequests) :
       permissionRequests[i].permission = "default"

\* C23: for every input normalizeTimeString returns a string of the form
\* HH:MM, an hour part and a minute part of two characters each.
C23_NormalizedIsHHMM ==
  returned.by = "normalizeTimeString" =>
    /\ Len(returned.result) = 5
    /\ returned.result[3] = ":"
    /\ \A i \in {1, 2, 4, 5} : returned.result[i] # ":"

\* C24: for a lead whose callback time has passed, at most one callback
\* notification is created per calendar day for a given lead, callback date
\* and time and user, whatever is read, removed or cleared in between.
C24_OneCallbackNotificationPerDay ==
  \A e \in out : e.hook = "N" => ~e.again

\* C25: in every reachable state of the notification store unreadCount is
\* the number of notifications whose read flag is false.
C25_UnreadCountIsTheNumberUnread ==
  unreadCount = Cardinality({i \in 1..Len(notifications) :
                               ~notifications[i].read})

\* C26: once markAsNotified has set notified = true in the local event
\* store, no step sets the local copy of that event back to notified =
\* false; in particular not the response of a fetch that was requested
\* before the mark-notified call completed.
C26_LocalNotifiedNeverReverts ==
  [][\A id \in EventIds :
       (events[id] # NoEvent /\ events[id].notified) =>
         (events'[id] # NoEvent /\ events'[id].notified)]_vars

C28_RoundTripIsIdentity ==
  returned.by = "israelTimeToUtc" => returned.result = returned.of
\* The notice window of a repository row opens at this minute: the row is an
\* active reminder, not notified, with an advance notice of a minute or more.
WindowOpens(id) ==
  /\ isAuthenticated
  /\ uTimer
  /\ server[id] # NoEvent
  /\ server[id].eventType = "reminder"
  /\ server[id].isActive
  /\ ~server[id].notified
  /\ server[id].advanceNotice >= 1
  /\ now = server[id].startTime - server[id].advanceNotice

\* C29: while the session stays authenticated and the interval keeps
\* firing, every active, un-notified reminder with an advance notice of a
\* minute or more that the repository holds when its notice window opens is
\* eventually notified, a reminder created while the poller runs included.
C29_EveryReminderIsNotified ==
  \A id \in EventIds :
     WindowOpens(id) ~> (<<"U", "toast", id>> \in done)
\* C30: a fetchEvents, deleteEvent or markAsNotified call that fails leaves
\* the events list as it was; after a failed fetchEvents or deleteEvent
\* isLoading is false; markAsNotified does not reject, deleteEvent rethrows.
C30_FailureLeavesTheListAlone ==
  [][\A c \in caught' :
        /\ events' = events
        /\ c.call \in {"fetchEvents", "deleteEvent"} => ~isLoading'
        /\ c.call = "markAsNotified" => ~c.rethrown
        /\ c.call = "deleteEvent" => c.rethrown]_vars

\* C30, its case: a DELETE has just failed while the list holds the event
\* it was for, and the call rejected with isLoading cleared.
C30_Witness ==
  \E c \in caught, id \in EventIds :
     /\ c.call = "deleteEvent"
     /\ c.rethrown
     /\ tokens
     /\ events[id] # NoEvent
     /\ server[id] # NoEvent
     /\ id \notin uDelete
     /\ ~isLoading
====
